---- MODULE Spec2Model ----
(***************************************************************************)
(* Model of as6-migration-tools:                                           *)
(*   utils/utils.py            calculate_file_hash, ask_user,              *)
(*                             scan_files_parallel                         *)
(*   helpers/mappmotion_update.py  warn_inputs, replace_enums,             *)
(*                             replace_inputs, replace_fbs_and_types, main *)
(*   checks/hardware_check.py  process_hw_file, check_hardware             *)
(*                                                                         *)
(* Three specifications share the definitions below:                       *)
(*   PassSpec  one call of one rewrite pass on one file                    *)
(*   Spec      main() of the migration tool: prompt, walk, summary         *)
(*   ScanSpec  scan_files_parallel and check_hardware                      *)
(***************************************************************************)
EXTENDS Integers, Sequences, FiniteSets, TLC

VARIABLES
    \* ---- rewrite passes / migration tool ----
    files,      \* the project files on disk: sequence of [root, ext, bytes]
    files0,     \* the same files as they were when the run started
    linesep,    \* os.linesep of the platform the tool runs on
    tables,     \* the mapping tables main() passes to the passes
    mpc,        \* position of main() / of the pass call
    fi,         \* index of the file the walk is at
    proceed,    \* value returned by ask_user
    totals,     \* main()'s summary counters
    ret,        \* what the most recent pass call returned and did
    opened,     \* indices of the files opened for writing so far
    \* ---- scan_files_parallel / check_hardware ----
    tree,               \* the files under root_dir
    extensions,         \* argument: the extension filters
    process_functions,  \* argument, as a list of functions
    single_function_mode,
    hardware_dict,      \* *args: the catalog, reason -> identifiers
    caller,             \* who called the scanner
    spc,                \* position of the scan
    file_paths,         \* the eager list of paths
    futures,            \* state of the task submitted for each path
    results,            \* the aggregate, function name -> sequence
    scanret,            \* value returned by scan_files_parallel
    report              \* check_hardware's grouped output

mvars == <<files, files0, linesep, tables, mpc, fi, proceed, totals, ret, opened>>

svars == <<tree, extensions, process_functions, single_function_mode, hardware_dict,
           caller, spc, file_paths, futures, results, scanret, report>>

vars == <<mvars, svars>>

-----------------------------------------------------------------------------
(* Bounds                                                                  *)

MaxLen == 4        \* longest file (bytes) handed to a single pass call

-----------------------------------------------------------------------------
(* Characters.  iso-8859-1 maps byte k to code point k and back, so one    *)
(* token stands for a byte and for the character it decodes to.            *)

CR == "CR"
LF == "LF"
DOT == "."
WordChars == {"A", "B"}                 \* characters matched by \w
Alphabet == WordChars \cup {DOT, CR, LF}

RECURSIVE SeqsUpTo(_, _)
SeqsUpTo(S, n) ==
    IF n = 0 THEN {<<>>}
    ELSE LET shorter == SeqsUpTo(S, n - 1)
         IN  shorter \cup {Append(s, c) : s \in {t \in shorter : Len(t) = n - 1}, c \in S}

Contents == SeqsUpTo(Alphabet, MaxLen)
Idents == {<<"A">>, <<"B">>, <<"A", "B">>}     \* identifiers used as mapping keys

-----------------------------------------------------------------------------
(* Text-mode file access: open(path, "r"/"w", encoding="iso-8859-1")       *)

\* open(..., "r") with the default newline=None: "\r\n" and "\r" are read as "\n"
RECURSIVE ReadText(_)
ReadText(b) ==
    IF b = <<>> THEN <<>>
    ELSE IF b[1] = CR
         THEN IF Len(b) >= 2 /\ b[2] = LF
              THEN <<LF>> \o ReadText(SubSeq(b, 3, Len(b)))
              ELSE <<LF>> \o ReadText(Tail(b))
         ELSE <<b[1]>> \o ReadText(Tail(b))

\* open(..., "w") with the default newline=None: "\n" is written as os.linesep
RECURSIVE WriteText(_, _)
WriteText(t, sep) ==
    IF t = <<>> THEN <<>>
    ELSE (IF t[1] = LF THEN sep ELSE <<t[1]>>) \o WriteText(Tail(t), sep)

\* utils.calculate_file_hash: the digest is fed the file in chunks of
\* ChunkSize bytes; MD5 is taken as collision free, i.e. the digest
\* determines the byte string it was fed.
ChunkSize == 4096

RECURSIVE Md5Update(_, _)
Md5Update(acc, b) ==
    IF b = <<>> THEN acc
    ELSE LET k == IF Len(b) < ChunkSize THEN Len(b) ELSE ChunkSize
         IN  Md5Update(acc \o SubSeq(b, 1, k), SubSeq(b, k + 1, Len(b)))

calculate_file_hash(b) == [md5 |-> Md5Update(<<>>, b)]

-----------------------------------------------------------------------------
(* Regular expressions: re.escape(literal) optionally wrapped in \b ... \b *)

IsWordAt(s, i) == i >= 1 /\ i <= Len(s) /\ s[i] \in WordChars

\* \b between s[i-1] and s[i]: exactly one side is a word character
Boundary(s, i) == IsWordAt(s, i - 1) # IsWordAt(s, i)

Pattern(lit, bounded) == [lit |-> lit, b |-> bounded]

\* MatchAt without the closing \b
MatchAt_NoClosingBoundary(pat, s, i) ==
    /\ i + Len(pat.lit) - 1 <= Len(s)
    /\ SubSeq(s, i, i + Len(pat.lit) - 1) = pat.lit
    /\ pat.b => Boundary(s, i)

MatchAt(pat, s, i) ==
    /\ i + Len(pat.lit) - 1 <= Len(s)
    /\ SubSeq(s, i, i + Len(pat.lit) - 1) = pat.lit
    /\ pat.b => (Boundary(s, i) /\ Boundary(s, i + Len(pat.lit)))

\* re.search
Search(pat, s) == \E i \in 1..Len(s) : MatchAt(pat, s, i)

\* re.subn: leftmost, non-overlapping matches, scanned left to right
RECURSIVE SubnFrom(_, _, _, _)
SubnFrom(pat, repl, s, i) ==
    IF i > Len(s) THEN [text |-> <<>>, n |-> 0]
    ELSE IF MatchAt(pat, s, i)
         THEN LET r == SubnFrom(pat, repl, s, i + Len(pat.lit))
              IN  [text |-> repl \o r.text, n |-> r.n + 1]
         ELSE LET r == SubnFrom(pat, repl, s, i + 1)
              IN  [text |-> <<s[i]>> \o r.text, n |-> r.n]

Subn(pat, repl, s) == SubnFrom(pat, repl, s, 1)

-----------------------------------------------------------------------------
(* Mapping tables: a dict in insertion order, a sequence of [old, new]     *)

Rule(old, new) == [old |-> old, new |-> new]
Keys(m) == {m[k].old : k \in 1..Len(m)}

\* "for old, new in mapping.items(): content, n = re.subn(...); total += n"
RECURSIVE ApplyTable(_, _, _, _)
ApplyTable(m, text, bounded, prefix) ==
    IF m = <<>> THEN [text |-> text, n |-> 0]
    ELSE LET one  == Subn(Pattern(prefix \o m[1].old, bounded), prefix \o m[1].new, text)
             rest == ApplyTable(Tail(m), one.text, bounded, prefix)
         IN  [text |-> rest.text, n |-> one.n + rest.n]

\* WriteBack without the test for a net change of the text
WriteBack_Unconditional(b, original_content, modified_content, sep) ==
    LET original_hash == calculate_file_hash(b)
        written       == WriteText(modified_content, sep)
        new_hash      == calculate_file_hash(written)
    IN  [bytes |-> written, wrote |-> TRUE, changed |-> original_hash # new_hash]

\* the tail shared by the three passes: write back on a net change of the
\* text, then compare the digests taken before and after
WriteBack(b, original_content, modified_content, sep) ==
    LET original_hash == calculate_file_hash(b)
    IN  IF modified_content # original_content
        THEN LET written  == WriteText(modified_content, sep)
                 new_hash == calculate_file_hash(written)
             IN  [bytes |-> written, wrote |-> TRUE,
                  changed |-> original_hash # new_hash]
        ELSE [bytes |-> b, wrote |-> FALSE, changed |-> FALSE]

Result(pass, b, wb, n1, n2, msgs) ==
    [pass |-> pass, before |-> b, after |-> wb.bytes, n1 |-> n1, n2 |-> n2,
     changed |-> wb.changed, wrote |-> wb.wrote, msgs |-> msgs]

NoWrite(b) == [bytes |-> b, wrote |-> FALSE, changed |-> FALSE]

\* warn_inputs: one message per key found anywhere in the text, no write
warn_inputs(b, item_mappings) ==
    LET original_content == ReadText(b)
        found == {k \in 1..Len(item_mappings) :
                     Search(Pattern(item_mappings[k].old, FALSE), original_content)}
    IN  Result("warn_inputs", b, NoWrite(b), 0, 0, {item_mappings[k].old : k \in found})

\* replace_enums reporting changed from its replacement count
replace_enums_ChangedFromCount(b, enum_mapping, sep) ==
    LET original_content == ReadText(b)
        r  == ApplyTable(enum_mapping, original_content, FALSE, <<>>)
        wb == WriteBack(b, original_content, r.text, sep)
    IN  Result("replace_enums", b, [wb EXCEPT !.changed = r.n > 0], r.n, 0, {})

\* replace_enums: plain literal patterns
replace_enums(b, enum_mapping, sep) ==
    LET original_content == ReadText(b)
        r == ApplyTable(enum_mapping, original_content, FALSE, <<>>)
    IN  Result("replace_enums", b, WriteBack(b, original_content, r.text, sep), r.n, 0, {})

\* replace_inputs: "." is put in front of old and new, the pattern is \b.old\b
replace_inputs(b, input_mapping, sep) ==
    LET original_content == ReadText(b)
        r == ApplyTable(input_mapping, original_content, TRUE, <<DOT>>)
    IN  Result("replace_inputs", b, WriteBack(b, original_content, r.text, sep), r.n, 0, {})

\* the report-only loop over fb_removal_mapping
RemovalMessages(fb_removal_mapping, text) ==
    {fb_removal_mapping[k].old : k \in
        {j \in 1..Len(fb_removal_mapping) :
            Search(Pattern(fb_removal_mapping[j].old, TRUE), text)}}

\* replace_fbs_and_types substituting the keys of fb_removal_mapping as well
replace_fbs_and_types_RewritesRemoved(b, fb_mapping, type_mapping, fb_removal_mapping, sep) ==
    LET original_content == ReadText(b)
        fbs   == ApplyTable(fb_mapping, original_content, TRUE, <<>>)
        msgs  == RemovalMessages(fb_removal_mapping, fbs.text)
        rem   == ApplyTable(fb_removal_mapping, fbs.text, TRUE, <<>>)
        types == ApplyTable(type_mapping, rem.text, TRUE, <<>>)
    IN  Result("replace_fbs_and_types", b,
               WriteBack(b, original_content, types.text, sep), fbs.n, types.n, msgs)

\* replace_fbs_and_types: \bold\b for fb_mapping, report for
\* fb_removal_mapping, \bold\b for type_mapping
replace_fbs_and_types(b, fb_mapping, type_mapping, fb_removal_mapping, sep) ==
    LET original_content == ReadText(b)
        fbs   == ApplyTable(fb_mapping, original_content, TRUE, <<>>)
        msgs  == RemovalMessages(fb_removal_mapping, fbs.text)
        types == ApplyTable(type_mapping, fbs.text, TRUE, <<>>)
    IN  Result("replace_fbs_and_types", b,
               WriteBack(b, original_content, types.text, sep), fbs.n, types.n, msgs)

-----------------------------------------------------------------------------
(* Mapping tables offered to the passes.  As in main(), the keys of        *)
(* fb_mapping, type_mapping and fb_removal_mapping are identifiers and a   *)
(* key of fb_removal_mapping is a key of neither of the other two.         *)

Chars1 == {<<c>> : c \in WordChars}
Dotted == {<<"B", DOT, "A">>}

OneRule(K, V) == {<<Rule(k, v)>> : k \in K, v \in V}
TwoRules(K, V) ==
    {<<Rule(kk[1], v1), Rule(kk[2], v2)>> :
        kk \in {p \in K \X K : p[1] # p[2]}, v1 \in V, v2 \in V}

EnumTables    == OneRule(Idents, Chars1) \cup TwoRules(Chars1, Chars1)
InputTables   == OneRule(Idents \cup {<<"A", DOT, "B">>}, Chars1 \cup Dotted)
                     \cup TwoRules(Chars1, {<<"A">>})
WarnTables    == OneRule(Idents, Dotted)
FbTables      == {<<>>} \cup OneRule(Idents, Chars1)
TypeTables    == {<<>>} \cup OneRule(Chars1, {<<"A">>})
RemovalTables == {<<>>} \cup OneRule(Chars1, Dotted) \cup {<<Rule(<<"B">>, <<"A">>)>>}

EmptyTables ==
    [enum |-> <<>>, input |-> <<>>, warn |-> <<>>,
     fb |-> <<>>, type |-> <<>>, removal |-> <<>>]

NoRet ==
    [pass |-> "none", before |-> <<>>, after |-> <<>>, n1 |-> 0, n2 |-> 0,
     changed |-> FALSE, wrote |-> FALSE, msgs |-> {}]

NoTotals == [inputs |-> 0, functions |-> 0, enums |-> 0, types |-> 0, files |-> 0]

LineSeps == {<<LF>>, <<CR, LF>>}       \* os.linesep on POSIX and on Windows

File(root, ext, b) == [root |-> root, ext |-> ext, bytes |-> b]

\* the scanner is not in use
ScanIdle ==
    /\ tree = {} /\ extensions = <<>> /\ process_functions = <<>>
    /\ single_function_mode = FALSE /\ hardware_dict = <<>> /\ caller = "none"
    /\ spc = "idle" /\ file_paths = <<>> /\ futures = <<>> /\ results = <<>>
    /\ scanret = <<>> /\ report = <<>>

-----------------------------------------------------------------------------
(* PassSpec: one pass is called once on one file                           *)

PassInit ==
    /\ \E b \in Contents : files = <<File(<<"Logical">>, ".st", b)>>
    /\ files0 = files
    /\ linesep = <<>>
    /\ tables = EmptyTables
    /\ mpc = "call"
    /\ fi = 1
    /\ proceed = <<>>
    /\ totals = NoTotals
    /\ ret = NoRet
    /\ opened = {}
    /\ ScanIdle

\* what a pass call leaves behind: the file as written and the returned
\* tuple; t are the tables it was given, sep the platform's os.linesep
Returned(r, t, sep) ==
    /\ files' = [files EXCEPT ![fi].bytes = r.after]
    /\ opened' = IF r.wrote THEN opened \cup {fi} ELSE opened
    /\ ret' = r
    /\ tables' = t
    /\ linesep' = sep
    /\ mpc' = "returned"
    /\ UNCHANGED <<files0, fi, proceed, totals>>
    /\ UNCHANGED svars

CallWarnInputs ==
    /\ mpc = "call"
    /\ \E m \in WarnTables, sep \in LineSeps :
          Returned(warn_inputs(files[fi].bytes, m),
                   [EmptyTables EXCEPT !.warn = m], sep)

CallReplaceEnums ==
    /\ mpc = "call"
    /\ \E m \in EnumTables, sep \in LineSeps :
          Returned(replace_enums(files[fi].bytes, m, sep),
                   [EmptyTables EXCEPT !.enum = m], sep)

CallReplaceInputs ==
    /\ mpc = "call"
    /\ \E m \in InputTables, sep \in LineSeps :
          Returned(replace_inputs(files[fi].bytes, m, sep),
                   [EmptyTables EXCEPT !.input = m], sep)

CallReplaceFbsAndTypes ==
    /\ mpc = "call"
    /\ \E f \in FbTables, t \in TypeTables, r \in RemovalTables, sep \in LineSeps :
          /\ Keys(r) \cap (Keys(f) \cup Keys(t)) = {}
          /\ Returned(replace_fbs_and_types(files[fi].bytes, f, t, r, sep),
                      [EmptyTables EXCEPT !.fb = f, !.type = t, !.removal = r], sep)

PassNext ==
    \/ CallWarnInputs
    \/ CallReplaceEnums
    \/ CallReplaceInputs
    \/ CallReplaceFbsAndTypes

PassSpec == PassInit /\ [][PassNext]_vars

-----------------------------------------------------------------------------
(* utils.ask_user                                                          *)

\* str.lower() and str.strip() on the characters a reply is made of
Lower(t) == [k \in 1..Len(t) |-> CASE t[k] = "Y" -> "y" [] t[k] = "N" -> "n" [] OTHER -> t[k]]

RECURSIVE LStrip(_)
LStrip(t) == IF t # <<>> /\ t[1] = " " THEN LStrip(Tail(t)) ELSE t

RECURSIVE RStrip(_)
RStrip(t) ==
    IF t # <<>> /\ t[Len(t)] = " " THEN RStrip(SubSeq(t, 1, Len(t) - 1)) ELSE t

Strip(t) == RStrip(LStrip(t))

\* parent: a GUI context was passed, gui_yes: the dialog's answer,
\* isatty: stdin is a terminal, raises: input() raised, line: the line typed
ask_user(parent, gui_yes, isatty, raises, line, default) ==
    IF parent THEN (IF gui_yes THEN <<"y">> ELSE <<"n">>)
    ELSE IF isatty /\ ~raises THEN Lower(Strip(line))
    ELSE default

\* the lines a user may type at the prompt
Lines ==
    {<<>>, <<"y">>, <<"Y">>, <<" ", "y", " ">>, <<"n">>, <<"N">>,
     <<"y", "e", "s">>, <<" ">>}

\* main(): "proceed not in ('', 'y')" cancels the run
Confirmed_Always(p) == TRUE

Confirmed(p) == p \in {<<>>, <<"y">>}

-----------------------------------------------------------------------------
(* Spec: main() of mappmotion_update.py                                    *)

MaxFiles == 2      \* most files in the project tree

Prog == <<"Logical", "Program">>
Lib  == <<"Logical", "Libraries", "McAxis">>

\* files a project is made of
ProjectFiles ==
    {File(Prog, ".st",  <<"A", DOT, "B">>),
     File(Prog, ".st",  <<"B", CR, LF, "B">>),
     File(Prog, ".c",   <<"B", "A">>),
     File(Prog, ".typ", <<"A", "B", LF, "B">>),
     File(Prog, ".var", <<"A">>),
     File(Prog, ".txt", <<"A", DOT, "B">>),
     File(Lib,  ".st",  <<"A", DOT, "B">>)}

RECURSIVE Projects(_)
Projects(n) ==
    IF n = 0 THEN {<<>>}
    ELSE LET shorter == Projects(n - 1)
         IN  shorter \cup
             {Append(p, f) : p \in {q \in shorter : Len(q) = n - 1}, f \in ProjectFiles}

\* the mapping tables main() defines, cut down to the model's identifiers
MainTables ==
    [enum    |-> <<Rule(<<"A">>, <<"B">>)>>,
     input   |-> <<Rule(<<"B">>, <<"A">>)>>,
     warn    |-> <<Rule(<<"B">>, <<"B", DOT, "A">>)>>,
     fb      |-> <<Rule(<<"A", "B">>, <<"A">>)>>,
     type    |-> <<Rule(<<"B">>, <<"A">>)>>,
     removal |-> <<Rule(<<"A">>, <<"B", DOT, "A">>)>>]

\* "Libraries" in root
InLibraries(root) == \E k \in 1..Len(root) : root[k] = "Libraries"

SourceExts == {".st", ".c", ".cpp", ".ab"}
DeclExts   == {".typ", ".var", ".fun"}

Init ==
    /\ files \in Projects(MaxFiles)
    /\ files0 = files
    /\ linesep \in LineSeps
    /\ tables = MainTables
    /\ mpc = "start"
    /\ fi = 1
    /\ proceed = <<>>
    /\ totals = NoTotals
    /\ ret = NoRet
    /\ opened = {}
    /\ ScanIdle

\* main() up to the return of ask_user, in either branch of "if not found_libraries"
Main_AskUser ==
    /\ mpc = "start"
    /\ \E found_libraries \in BOOLEAN, isatty \in BOOLEAN, raises \in BOOLEAN, line \in Lines :
          proceed' = ask_user(FALSE, FALSE, isatty, raises, line, <<"y">>)
    /\ mpc' = "asked"
    /\ UNCHANGED <<files, files0, linesep, tables, fi, totals, ret, opened>>
    /\ UNCHANGED svars

\* "Operation cancelled. No changes were made."; return
Main_Cancel ==
    /\ mpc = "asked"
    /\ ~Confirmed(proceed)
    /\ mpc' = "cancelled"
    /\ UNCHANGED <<files, files0, linesep, tables, fi, proceed, totals, ret, opened>>
    /\ UNCHANGED svars

\* the tables and counters are set up and os.walk starts
Main_StartWalk ==
    /\ mpc = "asked"
    /\ Confirmed(proceed)
    /\ mpc' = "walk"
    /\ fi' = 1
    /\ totals' = NoTotals
    /\ UNCHANGED <<files, files0, linesep, tables, proceed, ret, opened>>
    /\ UNCHANGED svars

AtFile == mpc = "walk" /\ fi <= Len(files)

\* a file under Libraries, or one with neither kind of extension
Main_SkipFile ==
    /\ AtFile
    /\ \/ InLibraries(files[fi].root)
       \/ files[fi].ext \notin SourceExts \cup DeclExts
    /\ fi' = fi + 1
    /\ UNCHANGED <<files, files0, linesep, tables, mpc, proceed, totals, ret, opened>>
    /\ UNCHANGED svars

\* a pass called on the file the walk is at
Ran(r) ==
    /\ files' = [files EXCEPT ![fi].bytes = r.after]
    /\ opened' = IF r.wrote THEN opened \cup {fi} ELSE opened
    /\ ret' = r
    /\ UNCHANGED <<files0, linesep, tables, proceed>>
    /\ UNCHANGED svars

Main_WarnInputs ==
    /\ AtFile
    /\ ~InLibraries(files[fi].root)
    /\ files[fi].ext \in SourceExts
    /\ Ran(warn_inputs(files[fi].bytes, tables.warn))
    /\ mpc' = "enums"
    /\ UNCHANGED <<fi, totals>>

Main_ReplaceEnums ==
    /\ mpc = "enums"
    /\ LET r == replace_enums(files[fi].bytes, tables.enum, linesep)
       IN  /\ Ran(r)
           /\ totals' = IF r.changed
                        THEN [totals EXCEPT !.enums = @ + r.n1, !.files = @ + 1]
                        ELSE totals
    /\ mpc' = "inputs"
    /\ UNCHANGED fi

Main_ReplaceInputs ==
    /\ mpc = "inputs"
    /\ LET r == replace_inputs(files[fi].bytes, tables.input, linesep)
       IN  /\ Ran(r)
           /\ totals' = IF r.changed
                        THEN [totals EXCEPT !.inputs = @ + r.n1, !.files = @ + 1]
                        ELSE totals
    /\ mpc' = "walk"
    /\ fi' = fi + 1

Main_ReplaceFbsAndTypes ==
    /\ AtFile
    /\ ~InLibraries(files[fi].root)
    /\ files[fi].ext \notin SourceExts
    /\ files[fi].ext \in DeclExts
    /\ LET r == replace_fbs_and_types(files[fi].bytes, tables.fb, tables.type,
                                      tables.removal, linesep)
       IN  /\ Ran(r)
           /\ totals' = IF r.changed
                        THEN [totals EXCEPT !.types = @ + r.n2, !.functions = @ + r.n1,
                                            !.files = @ + 1]
                        ELSE totals
    /\ fi' = fi + 1
    /\ UNCHANGED mpc

\* the walk is over: the summary is printed
Main_Summary ==
    /\ mpc = "walk"
    /\ fi > Len(files)
    /\ mpc' = "done"
    /\ UNCHANGED <<files, files0, linesep, tables, fi, proceed, totals, ret, opened>>
    /\ UNCHANGED svars

Next ==
    \/ Main_AskUser
    \/ Main_Cancel
    \/ Main_StartWalk
    \/ Main_SkipFile
    \/ Main_WarnInputs
    \/ Main_ReplaceEnums
    \/ Main_ReplaceInputs
    \/ Main_ReplaceFbsAndTypes
    \/ Main_Summary

Spec == Init /\ [][Next]_vars

-----------------------------------------------------------------------------
(* ScanSpec: utils.scan_files_parallel, called by check_hardware or by     *)
(* another caller with functions of its own                                *)

MaxTasks == 4      \* most tasks one scan submits to the pool

\* the passes and main() are not in use
MigIdle ==
    /\ files = <<>> /\ files0 = <<>> /\ linesep = <<>> /\ tables = EmptyTables
    /\ mpc = "idle" /\ fi = 1 /\ proceed = <<>> /\ totals = NoTotals
    /\ ret = NoRet /\ opened = {}

Range(q) == {q[k] : k \in 1..Len(q)}
CountIn(q, x) == Cardinality({k \in 1..Len(q) : q[k] = x})

\* file names and extension filters, character by character
ExtHw     == <<".", "h", "w">>
ExtHwBare == <<"h", "w">>
ExtT      == <<".", "t">>
NameAHw   == <<"a">> \o ExtHw
NameBHw   == <<"b">> \o ExtHw
NameAT    == <<"a">> \o ExtT

\* Path.rglob("*" + ext): the name ends with ext
EndsWith(name, ext) ==
    Len(ext) <= Len(name) /\ SubSeq(name, Len(name) - Len(ext) + 1, Len(name)) = ext

Path(dir, name) == [dir |-> dir, name |-> name]

\* os.path.basename(os.path.dirname(file_path))
ConfigName(path) == path.dir

\* the files that may lie under root_dir, in directory order, each with the
\* Type values that '<Module [^>]*Type="([^"]+)"' finds in it
DiskFiles ==
    <<[path |-> Path("cfgA", NameAHw), modules |-> <<"X100">>],
      [path |-> Path("cfgA", NameBHw), modules |-> <<"X100", "X20">>],
      [path |-> Path("cfgB", NameAHw), modules |-> <<"X100", "X100">>],
      [path |-> Path("cfgC", NameAHw), modules |-> <<"X100", "Y1">>],
      [path |-> Path("cfgD", NameAHw), modules |-> <<"X100">>],
      [path |-> Path("cfgA", NameAT),  modules |-> <<"X20">>]>>

FileAt(path) == CHOOSE f \in Range(DiskFiles) : f.path = path

\* sorted() on configuration names
ConfigNames == <<"cfgA", "cfgB", "cfgC", "cfgD">>
Rank(c) == CHOOSE k \in 1..Len(ConfigNames) : ConfigNames[k] = c

RECURSIVE Insert(_, _)
Insert(c, q) ==
    IF q = <<>> THEN <<c>>
    ELSE IF Rank(c) <= Rank(q[1]) THEN <<c>> \o q
    ELSE <<q[1]>> \o Insert(c, Tail(q))

RECURSIVE Sorted(_)
Sorted(q) == IF q = <<>> THEN <<>> ELSE Insert(q[1], Sorted(Tail(q)))

\* unsupported_hw catalogs: reason -> identifiers ({} when loading failed)
Catalogs ==
    {<<>>,
     [EOL |-> {"X100"}],
     [EOL |-> {"X100"}, NoAS6 |-> {"X100", "X20"}]}

\* extraction functions: process_hw_file and three functions of other
\* callers, two of them lambdas, which share one __name__
Fn(id, name) == [id |-> id, name |-> name]
ProcessHwFile == Fn("process_hw_file", "process_hw_file")
FindTypes     == Fn("find_types", "find_types")
Lambda1       == Fn("lambda#1", "<lambda>")
Lambda2       == Fn("lambda#2", "<lambda>")

\* the process_functions arguments of the other callers: a function, or a
\* list of distinct functions
FunctionArgs ==
    {[single |-> TRUE,  fns |-> <<FindTypes>>],
     [single |-> FALSE, fns |-> <<FindTypes>>],
     [single |-> FALSE, fns |-> <<FindTypes, Lambda1>>],
     [single |-> FALSE, fns |-> <<Lambda1, Lambda2>>]}

ExtLists == {<<ExtHw>>, <<ExtT>>, <<ExtHw, ExtT>>, <<ExtHw, ExtHwBare>>, <<ExtHw, ExtHw>>}

RECURSIVE Perms(_)
Perms(S) ==
    IF S = {} THEN {<<>>}
    ELSE UNION {{<<x>> \o q : q \in Perms(S \ {x})} : x \in S}

\* process_hw_file: the set of (hw_type, reason, file_path)
process_hw_file(path, dict) ==
    LET matches == FileAt(path).modules
    IN  {x \in {<<hw_type, reason, path>> :
                   hw_type \in Range(matches), reason \in DOMAIN dict} :
            x[1] \in dict[x[2]]}

\* what func(path, *args) may return: list(set) has no fixed order; the
\* other functions return one record per Type value found, in file order
Outcomes(func, path, dict) ==
    IF func.id = "process_hw_file"
    THEN Perms(process_hw_file(path, dict))
    ELSE {[k \in 1..Len(FileAt(path).modules) |->
              <<func.id, FileAt(path).modules[k], path>>]}

\* root_dir.rglob("*" + ext), files only, in directory order from position k
RECURSIVE Glob(_, _, _)
Glob(t, ext, k) ==
    IF k > Len(DiskFiles) THEN <<>>
    ELSE (IF DiskFiles[k] \in t /\ EndsWith(DiskFiles[k].path.name, ext)
          THEN <<DiskFiles[k].path>> ELSE <<>>) \o Glob(t, ext, k + 1)

\* [str(path) for ext in extensions for path in root_dir.rglob(...)]
RECURSIVE ListPaths(_, _)
ListPaths(t, exts) ==
    IF exts = <<>> THEN <<>> ELSE Glob(t, exts[1], 1) \o ListPaths(t, Tail(exts))

FuncNames(fns) == {fns[k].name : k \in 1..Len(fns)}

\* process_file: file_results[func.__name__] = func(path, *args), a later
\* function of the same name overwrites an earlier one
FileResults(fns, outs) ==
    [n \in FuncNames(fns) |->
        outs[CHOOSE k \in 1..Len(fns) :
                /\ fns[k].name = n
                /\ \A j \in 1..Len(fns) : fns[j].name = n => j <= k]]

ScanInit ==
    /\ MigIdle
    /\ tree \in SUBSET Range(DiskFiles)
    /\ \/ /\ caller = "check_hardware"
          /\ extensions = <<ExtHw>>
          /\ process_functions = <<ProcessHwFile>>
          /\ single_function_mode = TRUE
          /\ hardware_dict \in Catalogs
       \/ /\ caller = "other"
          /\ extensions \in ExtLists
          /\ \E a \in FunctionArgs :
                process_functions = a.fns /\ single_function_mode = a.single
          /\ hardware_dict = <<>>
    /\ Len(ListPaths(tree, extensions)) <= MaxTasks
    /\ spc = "call"
    /\ file_paths = <<>> /\ futures = <<>> /\ results = <<>>
    /\ scanret = <<>> /\ report = <<>>

\* the empty aggregate and the eager list of paths
Scan_Enumerate ==
    /\ spc = "call"
    /\ results' = [n \in FuncNames(process_functions) |-> <<>>]
    /\ file_paths' = ListPaths(tree, extensions)
    /\ spc' = "listed"
    /\ UNCHANGED <<tree, extensions, process_functions, single_function_mode,
                   hardware_dict, caller, futures, scanret, report>>
    /\ UNCHANGED mvars

\* futures = {executor.submit(process_file, path): path for path in file_paths}
Scan_Submit ==
    /\ spc = "listed"
    /\ futures' = [k \in 1..Len(file_paths) |-> "pending"]
    /\ spc' = "running"
    /\ UNCHANGED <<tree, extensions, process_functions, single_function_mode,
                   hardware_dict, caller, file_paths, results, scanret, report>>
    /\ UNCHANGED mvars

\* a task has run process_file, as_completed yields its future and the
\* consuming loop extends the aggregate with its results
Scan_Complete ==
    /\ spc = "running"
    /\ \E k \in 1..Len(futures) :
          /\ futures[k] = "pending"
          /\ \E outs \in [1..Len(process_functions) ->
                             UNION {Outcomes(process_functions[j], file_paths[k], hardware_dict) :
                                       j \in 1..Len(process_functions)}] :
                /\ \A j \in 1..Len(process_functions) :
                      outs[j] \in Outcomes(process_functions[j], file_paths[k], hardware_dict)
                /\ LET func_results == FileResults(process_functions, outs)
                   IN  results' = [n \in DOMAIN results |-> results[n] \o func_results[n]]
          /\ futures' = [futures EXCEPT ![k] = "done"]
    /\ UNCHANGED <<tree, extensions, process_functions, single_function_mode,
                   hardware_dict, caller, spc, file_paths, scanret, report>>
    /\ UNCHANGED mvars

\* the pool is left and the aggregate returned, flattened in single mode
Scan_Return ==
    /\ spc = "running"
    /\ \A k \in 1..Len(futures) : futures[k] = "done"
    /\ scanret' = IF single_function_mode
                  THEN results[process_functions[1].name]
                  ELSE results
    /\ spc' = "returned"
    /\ UNCHANGED <<tree, extensions, process_functions, single_function_mode,
                   hardware_dict, caller, file_paths, futures, results, report>>
    /\ UNCHANGED mvars

ShownConfigs == 3

\* grouped_results: one entry per hardware_id, in order of first appearance
RECURSIVE Group(_, _)
Group(hardware_results, grouped) ==
    IF hardware_results = <<>> THEN grouped
    ELSE LET hardware_id == hardware_results[1][1]
             reason      == hardware_results[1][2]
             config_name == ConfigName(hardware_results[1][3])
             at == {k \in 1..Len(grouped) : grouped[k].id = hardware_id}
         IN  Group(Tail(hardware_results),
                   IF at = {}
                   THEN Append(grouped, [id |-> hardware_id, reason |-> reason,
                                         configs |-> <<config_name>>])
                   ELSE [grouped EXCEPT ![CHOOSE k \in at : TRUE].configs =
                                            Append(@, config_name)])

Take(q, n) == SubSeq(q, 1, IF Len(q) < n THEN Len(q) ELSE n)

\* the lines of the report: sorted(entries['configs'][:3]) and the remainder
Output(grouped) ==
    [k \in 1..Len(grouped) |->
        [id      |-> grouped[k].id,
         reason  |-> grouped[k].reason,
         configs |-> grouped[k].configs,
         shown   |-> Sorted(Take(grouped[k].configs, ShownConfigs)),
         more    |-> IF Len(grouped[k].configs) > ShownConfigs
                     THEN Len(grouped[k].configs) - ShownConfigs ELSE 0]]

\* check_hardware after the scan: group and log
CheckHardware_Report ==
    /\ spc = "returned"
    /\ caller = "check_hardware"
    /\ report' = Output(Group(scanret, <<>>))
    /\ spc' = "reported"
    /\ UNCHANGED <<tree, extensions, process_functions, single_function_mode,
                   hardware_dict, caller, file_paths, futures, results, scanret>>
    /\ UNCHANGED mvars

ScanNext ==
    \/ Scan_Enumerate
    \/ Scan_Submit
    \/ Scan_Complete
    \/ Scan_Return
    \/ CheckHardware_Report

ScanSpec == ScanInit /\ [][ScanNext]_vars

-----------------------------------------------------------------------------
(* Vocabulary of the properties of the rewrite passes                      *)

RewritePasses == {"replace_enums", "replace_inputs", "replace_fbs_and_types"}

\* the keys of the tables a pass is given
PassKeys(pass) ==
    CASE pass = "replace_enums"  -> Keys(tables.enum)
      [] pass = "replace_inputs" -> Keys(tables.input)
      [] pass = "replace_fbs_and_types" ->
             Keys(tables.fb) \cup Keys(tables.type) \cup Keys(tables.removal)
      [] pass = "warn_inputs"    -> Keys(tables.warn)
      [] OTHER -> {}

\* key occurs somewhere in the byte string
Occurs(key, b) ==
    \E i \in 1..Len(b) : i + Len(key) - 1 <= Len(b) /\ SubSeq(b, i, i + Len(key) - 1) = key

\* identifiers of a text: the maximal runs of identifier characters; every
\* other character is a token of its own
RunLen(s) ==
    CHOOSE k \in 1..Len(s) :
        /\ \A j \in 1..k : s[j] \in WordChars
        /\ k = Len(s) \/ s[k + 1] \notin WordChars

RECURSIVE Tokens(_)
Tokens(s) ==
    IF s = <<>> THEN <<>>
    ELSE IF s[1] \notin WordChars
         THEN <<(<<s[1]>>)>> \o Tokens(Tail(s))
         ELSE LET k == RunLen(s)
              IN  <<SubSeq(s, 1, k)>> \o Tokens(SubSeq(s, k + 1, Len(s)))

TokenCount(s, key) ==
    LET toks == Tokens(s) IN Cardinality({k \in 1..Len(toks) : toks[k] = key})

RECURSIVE Join(_)
Join(toks) == IF toks = <<>> THEN <<>> ELSE toks[1] \o Join(Tail(toks))

\* the text with every identifier equal to old renamed to new
RenameToken(s, old, new) ==
    LET toks == Tokens(s)
    IN  Join([k \in 1..Len(toks) |-> IF toks[k] = old THEN new ELSE toks[k]])

RECURSIVE RenameTokens(_, _)
RenameTokens(m, s) ==
    IF m = <<>> THEN s ELSE RenameTokens(Tail(m), RenameToken(s, m[1].old, m[1].new))

-----------------------------------------------------------------------------
\* C4: a rewrite pass that leaves the bytes of the file as they were reports
\* changed = False, whatever its replacement count; it reports changed = True
\* only if the digest of the file after the pass differs from the digest
\* taken before it.
C4_NoOpGuard ==
    (mpc = "returned" /\ ret.pass \in RewritePasses) =>
        /\ (ret.after = ret.before => ~ret.changed)
        /\ (ret.changed =>
               calculate_file_hash(files[fi].bytes) # calculate_file_hash(ret.before))

\* a pass counted replacements and yet the file has its old bytes
C4_Witness ==
    /\ mpc = "returned" /\ ret.pass \in RewritePasses
    /\ ret.n1 > 0 /\ ret.after = ret.before /\ ~ret.changed

\* C5: on a file that contains no key of the tables given to the pass, a
\* rewrite pass does not write the file, counts 0 replacements and reports
\* changed = False.
C5_NoKeyNoWrite ==
    (/\ mpc = "returned" /\ ret.pass \in RewritePasses
     /\ \A key \in PassKeys(ret.pass) : ~Occurs(key, ret.before)) =>
        /\ ~ret.wrote /\ opened = {}
        /\ files[fi].bytes = files0[fi].bytes
        /\ ret.n1 = 0 /\ ret.n2 = 0 /\ ~ret.changed

\* a pass has run on a file with a line ending and without any of its keys
C5_Witness ==
    /\ mpc = "returned" /\ ret.pass \in RewritePasses
    /\ PassKeys(ret.pass) # {}
    /\ \A key \in PassKeys(ret.pass) : ~Occurs(key, ret.before)
    /\ Occurs(<<CR, LF>>, ret.before)
    /\ files[fi].bytes = ret.before

\* C6: replace_fbs_and_types renames exactly the identifiers that are a key
\* of fb_mapping or type_mapping as a whole: the text it leaves is the text
\* it read with every whole identifier equal to a key renamed, table by
\* table, and a key that is only part of a longer identifier is kept.
C6_WholeTokenOnly ==
    (mpc = "returned" /\ ret.pass = "replace_fbs_and_types") =>
        ReadText(ret.after) =
            RenameTokens(tables.type, RenameTokens(tables.fb, ReadText(ret.before)))

\* "A.AB" under A -> B: the A before the dot is renamed, the one in AB is not
C6_Witness ==
    /\ mpc = "returned" /\ ret.pass = "replace_fbs_and_types"
    /\ tables.fb = <<Rule(<<"A">>, <<"B">>)>> /\ tables.type = <<>>
    /\ ret.before = <<"A", DOT, "A", "B">>
    /\ ret.after = <<"B", DOT, "A", "B">>
    /\ ret.n1 = 1

\* C7: report-only rules leave the content alone.  Every whole-identifier
\* occurrence of a key of fb_removal_mapping is still in the file after
\* replace_fbs_and_types and a message names the key; warn_inputs does not
\* write the file.
C7_ReportOnly ==
    /\ (mpc = "returned" /\ ret.pass = "replace_fbs_and_types") =>
          \A key \in Keys(tables.removal) :
              /\ TokenCount(ReadText(ret.after), key) >= TokenCount(ReadText(ret.before), key)
              /\ TokenCount(ReadText(ret.before), key) > 0 => key \in ret.msgs
    /\ (mpc = "returned" /\ ret.pass = "warn_inputs") =>
          /\ ~ret.wrote /\ opened = {}
          /\ files[fi].bytes = files0[fi].bytes

\* a key with a dotted target is reported in a file that the same call rewrote
C7_Witness ==
    /\ mpc = "returned" /\ ret.pass = "replace_fbs_and_types"
    /\ \E key \in Keys(tables.removal) :
          /\ tables.removal = <<Rule(key, <<"B", DOT, "A">>)>>
          /\ TokenCount(ReadText(ret.before), key) > 0
          /\ TokenCount(ReadText(ret.after), key) > 0
          /\ key \in ret.msgs
    /\ ret.wrote /\ ret.n1 > 0

\* C9: the confirmation comes before the rewrites.  No file is opened for
\* writing and no pass is called before ask_user has returned, and a run
\* whose answer is neither "" nor "y" ends without a pass being called, all
\* files as they were at the start.
C9_ConfirmBeforeRewrite ==
    /\ mpc = "start" => (files = files0 /\ opened = {} /\ ret = NoRet)
    /\ (mpc # "start" /\ proceed \notin {<<>>, <<"y">>}) =>
          /\ mpc \in {"asked", "cancelled"}
          /\ files = files0 /\ opened = {} /\ ret = NoRet

\* a run was cancelled on a project holding a file a pass would have changed
C9_Witness ==
    /\ mpc = "cancelled"
    /\ proceed = <<"n">>
    /\ \E k \in 1..Len(files) :
          /\ ~InLibraries(files[k].root) /\ files[k].ext \in SourceExts
          /\ replace_enums(files[k].bytes, tables.enum, linesep).changed
    /\ files = files0

-----------------------------------------------------------------------------
(* Vocabulary of the properties of the scanner                             *)

\* the files under the root whose name matches one of the filters
Matching ==
    {f \in tree : \E k \in 1..Len(extensions) : EndsWith(f.path.name, extensions[k])}

ScanDone == spc \in {"returned", "reported"}

\* one of the results func gives on the file; all of them hold the same
\* elements the same number of times
ResultOn(func, f) == CHOOSE o \in Outcomes(func, f.path, hardware_dict) : TRUE

\* q holds the results of func on every matching file, each element as often
\* as the file's result holds it, and nothing else.  An element names its
\* file, so the results of two files share no element.
IsUnionOf(q, func) ==
    /\ \A f \in Matching : \A x \in Range(ResultOn(func, f)) :
          CountIn(q, x) = CountIn(ResultOn(func, f), x)
    /\ \A x \in Range(q) : \E f \in Matching : x \in Range(ResultOn(func, f))

\* C1: with a single extraction function the scan returns a flat sequence
\* holding exactly the elements of the function's results on the matching
\* files, each as often as the results hold it, whatever the order in which
\* the tasks complete.
C1_FlatUnion ==
    (ScanDone /\ single_function_mode) => IsUnionOf(scanret, process_functions[1])

\* C2: with a list of K distinct functions the scan returns a mapping with
\* exactly K keys, one per function, and the value under a function's key is
\* the union of that function's own results on the matching files.
C2_KeyedUnion ==
    (ScanDone /\ ~single_function_mode) =>
        /\ Cardinality(DOMAIN scanret) = Len(process_functions)
        /\ \A k \in 1..Len(process_functions) :
              /\ process_functions[k].name \in DOMAIN scanret
              /\ IsUnionOf(scanret[process_functions[k].name], process_functions[k])

\* C3: every file under the root that matches a filter is submitted to the
\* pool exactly once, and no other file is submitted.
C3_OneTaskPerFile ==
    spc \in {"running", "returned", "reported"} =>
        \A f \in tree :
            Cardinality({k \in 1..Len(futures) : file_paths[k] = f.path})
                = IF f \in Matching THEN 1 ELSE 0

\* the identifiers check_hardware has to flag and the folders that use them
FlaggedIn(f) ==
    {t \in Range(f.modules) : \E r \in DOMAIN hardware_dict : t \in hardware_dict[r]}
Flagged == UNION {FlaggedIn(f) : f \in Matching}
ConfigsUsing(id) == {ConfigName(f.path) : f \in {g \in Matching : id \in FlaggedIn(g)}}

\* C8: the report has exactly one entry per flagged identifier; the entry
\* lists every configuration folder that uses the identifier exactly once,
\* so the names shown plus the remainder count the distinct configurations.
C8_OneEntryOncePerConfig ==
    spc = "reported" =>
        /\ \A id \in Flagged : Cardinality({k \in 1..Len(report) : report[k].id = id}) = 1
        /\ \A k \in 1..Len(report) :
              /\ report[k].id \in Flagged
              /\ \A c \in ConfigsUsing(report[k].id) : CountIn(report[k].configs, c) = 1
              /\ Len(report[k].shown) + report[k].more
                     = Cardinality(ConfigsUsing(report[k].id))

\* the aggregate when the tasks complete in the order they were submitted
RECURSIVE InSubmissionOrder(_)
InSubmissionOrder(k) ==
    IF k > Len(file_paths) THEN <<>>
    ELSE ResultOn(process_functions[1], FileAt(file_paths[k])) \o InSubmissionOrder(k + 1)

\* C10: the names shown and the remainder of every entry of the report do
\* not depend on the order in which the tasks complete: they are the ones
\* the report has when the tasks complete in submission order.
C10_SameForEveryOrder ==
    spc = "reported" =>
        LET expected == Output(Group(InSubmissionOrder(1), <<>>))
        IN  \A k \in 1..Len(report) :
                \E j \in 1..Len(expected) :
                    /\ expected[j].id = report[k].id
                    /\ expected[j].shown = report[k].shown
                    /\ expected[j].more = report[k].more

-----------------------------------------------------------------------------
(* Vocabulary of the element-access rule of replace_inputs                 *)

\* an element access of old starts at the dot s[i]: the dot, then old, then
\* no identifier character
ElementAccessAt(s, old, i) ==
    /\ s[i] = DOT
    /\ i + Len(old) <= Len(s)
    /\ SubSeq(s, i + 1, i + Len(old)) = old
    /\ ~IsWordAt(s, i + Len(old) + 1)

\* the text with every element access of old, left to right, turned into an
\* element access of new, whatever stands before the dot
RECURSIVE RenameElementsFrom(_, _, _, _)
RenameElementsFrom(s, old, new, i) ==
    IF i > Len(s) THEN <<>>
    ELSE IF ElementAccessAt(s, old, i)
         THEN <<DOT>> \o new \o RenameElementsFrom(s, old, new, i + Len(old) + 1)
         ELSE <<s[i]>> \o RenameElementsFrom(s, old, new, i + 1)

RECURSIVE RenameElements(_, _)
RenameElements(m, s) ==
    IF m = <<>> THEN s
    ELSE RenameElements(Tail(m), RenameElementsFrom(s, m[1].old, m[1].new, 1))

\* C11: replace_inputs rewrites an occurrence of a key old of input_mapping
\* exactly when it is an element access, i.e. preceded by "." and not
\* followed by an identifier character: the text it leaves is the text it
\* read with every ".old" turned into ".new", whatever character stands
\* before the dot (identifier character, other character or start of text),
\* and with every other occurrence of old kept.
C11_ElementAccessRule ==
    (mpc = "returned" /\ ret.pass = "replace_inputs") =>
        ReadText(ret.after) = RenameElements(tables.input, ReadText(ret.before))

-----------------------------------------------------------------------------
(* Vocabulary of the summary counters of main()                            *)

\* the files of the walk whose bytes are not the bytes they had at the start
ChangedFiles == {k \in 1..Len(files) : files[k].bytes # files0[k].bytes}

\* C12: after the walk, total_files_changed is the number of distinct files
\* whose bytes the run changed: a file counts at most once, also when
\* replace_enums and replace_inputs both report changed = True for it, and
\* a run in which no pass wrote a file leaves every total at 0.
C12_CountsDistinctFiles ==
    mpc = "done" =>
        /\ totals.files = Cardinality(ChangedFiles)
        /\ totals.files <= Len(files)
        /\ opened = {} => totals = NoTotals

-----------------------------------------------------------------------------
(* Vocabulary of the frame of a write-back                                 *)

\* the bytes of a file with the substitutions of a pass made in place: the
\* matched occurrences are replaced, every other byte stays where it is
SubstituteBytes(pass, b) ==
    CASE pass = "replace_enums"  -> ApplyTable(tables.enum, b, FALSE, <<>>).text
      [] pass = "replace_inputs" -> ApplyTable(tables.input, b, TRUE, <<DOT>>).text
      [] pass = "replace_fbs_and_types" ->
             ApplyTable(tables.type, ApplyTable(tables.fb, b, TRUE, <<>>).text,
                        TRUE, <<>>).text
      [] OTHER -> b

\* C13: a rewrite pass that writes a file back changes only the bytes of
\* the replaced occurrences: every byte of the original file outside a
\* matched occurrence, line terminators included, is in the written file,
\* unchanged and in the same order.
C13_OnlyReplacedBytes ==
    (mpc = "returned" /\ ret.pass \in RewritePasses /\ ret.wrote) =>
        files[fi].bytes = SubstituteBytes(ret.pass, ret.before)

====
